---------------------------- MODULE Spec2Model ----------------------------
(***************************************************************************)
(* Sentiment / toxicity analysis service: the backend factory and the two  *)
(* inference backends (inference.py) behind the FastAPI application        *)
(* (app.py).                                                               *)
(*                                                                         *)
(* Representation.                                                         *)
(*  - A text is a sequence of one-character strings.                       *)
(*  - A float in [0,1] is a fixed-point integer in 0..Scale; a decision    *)
(*    score (and toxic_count / 3.0) is an integer number of thirds.        *)
(*  - The fitted vectorizer, the fitted linear classifier and the two      *)
(*    pretrained pipelines are third-party objects.  They are modelled as  *)
(*    parameter records read from disk at startup; what they return for a  *)
(*    text is a deterministic function of the record and the text.         *)
(*  - latency_ms (time.perf_counter) and logging are left out: no          *)
(*    behaviour modelled here reads them.                                  *)
(***************************************************************************)
EXTENDS Integers, Sequences, FiniteSets

(***************************************************************************)
(* Bounds of the model.                                                    *)
(***************************************************************************)
\* longest request text, in fragments of Pieces (sequential specification)
MaxPieces == 2
\* longest request text, in fragments, when two requests are in flight
MaxConcPieces == 1

(***************************************************************************)
(* Texts.                                                                  *)
(***************************************************************************)
UpperChars ==
    << "A","B","C","D","E","F","G","H","I","J","K","L","M",
       "N","O","P","Q","R","S","T","U","V","W","X","Y","Z" >>
LowerChars ==
    << "a","b","c","d","e","f","g","h","i","j","k","l","m",
       "n","o","p","q","r","s","t","u","v","w","x","y","z" >>

UpperSet == { UpperChars[i] : i \in 1..Len(UpperChars) }
LowerOf == [c \in UpperSet |-> LowerChars[CHOOSE i \in 1..Len(UpperChars) : UpperChars[i] = c]]
WordChars == UpperSet \cup { LowerChars[i] : i \in 1..Len(LowerChars) }

\* str.lower() on one character (ASCII)
LowerChar(c) == IF c \in UpperSet THEN LowerOf[c] ELSE c

\* str.lower()
Lower(s) == [i \in 1..Len(s) |-> LowerChar(s[i])]

\* Python's `word in text` on strings: word occurs as a contiguous substring
Contains(text, word) ==
    \E i \in 1..(Len(text) - Len(word) + 1) :
        SubSeq(text, i, i + Len(word) - 1) = word

\* fragments the request texts are built from: a mixed-case keyword, two
\* more keywords, a word that is no keyword, and white space
Pieces ==
    { << "H","a","t","e" >>,
      << "a","w","f","u","l"," ","t","e","r","r","i","b","l","e" >>,
      << "o","k" >>,
      << " ","\n","\t" >> }

RECURSIVE TextsUpTo(_)
TextsUpTo(n) ==
    IF n = 0 THEN { << >> }
    ELSE LET shorter == TextsUpTo(n - 1)
         IN  shorter \cup { t \o p : t \in shorter, p \in Pieces }

Texts == TextsUpTo(MaxPieces)
ConcTexts == TextsUpTo(MaxConcPieces)

WhitespaceChars == { " ", "\n", "\t", "\r" }

(***************************************************************************)
(* Floating point, in fixed point.                                         *)
(***************************************************************************)
\* 1.0
Scale == 1000
\* e^(1/3) and e^(-1/3), times Scale
ExpThird == 1396
ExpNegThird == 717
\* np.exp of more than this many thirds is taken as inf, of less than its
\* negative as 0.0 (float64 does the same, further out)
ExpRange == 22

RECURSIVE ExpPow(_)
ExpPow(k) ==
    IF k = 0 THEN Scale
    ELSE IF k > 0 THEN (ExpPow(k - 1) * ExpThird) \div Scale
    ELSE (ExpPow(k + 1) * ExpNegThird) \div Scale

\* Sigmoid with the "1 +" of the denominator lost: 1 / np.exp(-x)
SigmoidWithoutOne(k) ==
    IF -k > ExpRange THEN 0
    ELSE IF -k < -ExpRange \/ ExpPow(-k) = 0 THEN Scale * Scale
    ELSE (Scale * Scale) \div ExpPow(-k)

\* 1 / (1 + np.exp(-x)) for x = k thirds
Sigmoid(k) ==
    IF -k > ExpRange THEN 0
    ELSE IF -k < -ExpRange THEN Scale
    ELSE (Scale * Scale) \div (Scale + ExpPow(-k))

(***************************************************************************)
(* The TF-IDF backend's artifacts.                                         *)
(***************************************************************************)
toxic_keywords_literal ==
    { << "s","t","u","p","i","d" >>,
      << "i","d","i","o","t" >>,
      << "h","a","t","e" >>,
      << "k","i","l","l" >>,
      << "m","o","r","o","n" >>,
      << "d","u","m","b" >>,
      << "t","r","a","s","h" >>,
      << "h","o","r","r","i","b","l","e" >>,
      << "a","w","f","u","l" >>,
      << "t","e","r","r","i","b","l","e" >>,
      << "w","o","r","s","t" >>,
      << "u","s","e","l","e","s","s" >>,
      << "p","a","t","h","e","t","i","c" >>,
      << "l","o","s","e","r" >>,
      << "f","o","o","l" >>,
      << "j","e","r","k" >> }

\* the tokens of a text: its maximal runs of two or more word characters
\* (TfidfVectorizer's default token pattern)
Tokens(text) ==
    LET n == Len(text)
        starts == { i \in 1..n : text[i] \in WordChars /\ (i = 1 \/ text[i - 1] \notin WordChars) }
        EndOf(i) == CHOOSE j \in i..n :
                        /\ \A k \in i..j : text[k] \in WordChars
                        /\ (j = n \/ text[j + 1] \notin WordChars)
    IN  { SubSeq(text, i, EndOf(i)) : i \in { s \in starts : EndOf(s) > s } }

\* the fitted vocabulary saved by the bootstrap step
Vocabulary ==
    { << "h","a","t","e" >>, << "t","e","r","r","i","b","l","e" >>, << "o","k" >> }

\* vectorizer.transform([text]): the vocabulary terms among the lower-cased
\* text's tokens (term weights and normalisation are left to the classifier's
\* coefficients)
vectorizer_transform(vectorizer, text) ==
    Tokens(Lower(text)) \cap vectorizer.vocabulary

RECURSIVE SumCoef(_, _)
SumCoef(coef, terms) ==
    IF terms = {} THEN 0
    ELSE LET t == CHOOSE x \in terms : TRUE
         IN  coef[t] + SumCoef(coef, terms \ {t})

\* classifier.decision_function(X)[0], in thirds
classifier_decision_function(classifier, features) ==
    classifier.intercept + SumCoef(classifier.coef, features)

\* classifier.predict(X)[0]: classes_[1] when the decision is positive
classifier_predict(classifier, features) ==
    IF classifier_decision_function(classifier, features) > 0
    THEN classifier.classes[2]
    ELSE classifier.classes[1]


FittedCoef(t) ==
    CASE t = << "h","a","t","e" >> -> -3
      [] t = << "t","e","r","r","i","b","l","e" >> -> -2
      [] OTHER -> 4

\* what models/vectorizer.joblib and models/linear_svc.joblib may hold: the
\* bootstrap step fits a binary LinearSVC, whose classes_ are sorted
Vectorizers == { [vocabulary |-> Vocabulary] }
Intercepts == { -30, -1, 0, 1, 30 }
ClassPairs == { << "negative", "positive" >>, << "neutral", "positive" >> }
Classifiers ==
    { [coef |-> [t \in Vocabulary |-> FittedCoef(t)], intercept |-> b, classes |-> cl] :
        b \in Intercepts, cl \in ClassPairs }

(***************************************************************************)
(* The transformer backend's artifacts.                                    *)
(***************************************************************************)
NegativeTerms ==
    { << "h","a","t","e" >>, << "a","w","f","u","l" >>,
      << "t","e","r","r","i","b","l","e" >> }

\* what the two pretrained models may be: a head that reports the larger of
\* two softmax probabilities, or a multi-label head that reports the
\* sigmoid of its top label
SentimentModels ==
    { [labels |-> << "NEGATIVE", "POSITIVE" >>, activation |-> "softmax",
       bias |-> b, coef |-> -3] : b \in { -1, 2 } }
ToxicityModels ==
    { [labels |-> << "non-toxic", "toxic" >>, activation |-> "softmax",
       bias |-> -4, coef |-> 3],
      [labels |-> << "insult", "toxic" >>, activation |-> "sigmoid",
       bias |-> -5, coef |-> 4],
      [labels |-> << "toxic", "insult" >>, activation |-> "sigmoid",
       bias |-> -30, coef |-> 31] }

\* pipeline(text)[0]: the top label and its score, a score in 0..Scale
pipeline_call(p, text) ==
    LET logit == p.bias + p.coef * Cardinality(Tokens(Lower(text)) \cap NegativeTerms)
        s == Sigmoid(logit)
    IN  IF p.activation = "softmax"
        THEN [label |-> IF logit > 0 THEN p.labels[2] ELSE p.labels[1],
              score |-> IF logit > 0 THEN s ELSE Scale - s]
        ELSE [label |-> p.labels[2], score |-> s]

(***************************************************************************)
(* inference.py: the two backends.                                         *)
(***************************************************************************)
\* TransformerBackend.analyze, first statement: the sentiment pipeline
TransformerBackend_sentiment(self, text) ==
    LET sentiment_result == pipeline_call(self.sentiment_pipeline, text)
    IN  [sentiment_result |-> sentiment_result,
         label |-> sentiment_result.label,
         score |-> sentiment_result.score]

\* TransformerBackend_toxicity without the remapping of the other labels
TransformerBackend_toxicity_raw(self, text) ==
    LET toxicity_result == pipeline_call(self.toxicity_pipeline, text)
    IN  [toxicity_result |-> toxicity_result,
         toxicity_score |-> toxicity_result.score]

\* TransformerBackend.analyze, the toxicity pipeline and its remapping
TransformerBackend_toxicity(self, text) ==
    LET toxicity_result == pipeline_call(self.toxicity_pipeline, text)
    IN  [toxicity_result |-> toxicity_result,
         toxicity_score |-> IF toxicity_result.label = "toxic"
                            THEN toxicity_result.score
                            ELSE Scale - toxicity_result.score]

\* TfidfBackend_sentiment with the score of the negative branch not flipped
TfidfBackend_sentiment_unflipped(self, text) ==
    LET text_vectorized == vectorizer_transform(self.vectorizer, text)
        prediction == classifier_predict(self.classifier, text_vectorized)
        decision_scores == classifier_decision_function(self.classifier, text_vectorized)
        prob == Sigmoid(decision_scores)
    IN  [prediction |-> prediction,
         decision_scores |-> decision_scores,
         label |-> IF prediction = "positive" THEN "POSITIVE" ELSE "NEGATIVE",
         score |-> prob]

\* TfidfBackend.analyze, the sentiment half
TfidfBackend_sentiment(self, text) ==
    LET text_vectorized == vectorizer_transform(self.vectorizer, text)
        prediction == classifier_predict(self.classifier, text_vectorized)
        decision_scores == classifier_decision_function(self.classifier, text_vectorized)
        prob == Sigmoid(decision_scores)
    IN  [prediction |-> prediction,
         decision_scores |-> decision_scores,
         label |-> IF prediction = "positive" THEN "POSITIVE" ELSE "NEGATIVE",
         score |-> IF prediction = "positive" THEN prob ELSE Scale - prob]

\* ToxicCount counting every occurrence of every keyword (text.count(word))
ToxicCountOccurrences(keywords, text_lower) ==
    Cardinality({ o \in keywords \X (1..Len(text_lower)) :
                    /\ o[2] + Len(o[1]) - 1 <= Len(text_lower)
                    /\ SubSeq(text_lower, o[2], o[2] + Len(o[1]) - 1) = o[1] })

\* sum(1 for word in self.toxic_keywords if word in text_lower)
ToxicCount(keywords, text_lower) ==
    Cardinality({ word \in keywords : Contains(text_lower, word) })

\* TfidfBackend_toxicity matching the keywords against the text as given
TfidfBackend_toxicity_cased(self, text) ==
    LET toxic_count == ToxicCount(self.toxic_keywords, text)
    IN  [toxic_count |-> toxic_count,
         toxicity_score |-> Sigmoid(toxic_count)]

\* TfidfBackend.analyze, the toxicity half: toxic_count / 3.0 is toxic_count
\* thirds
TfidfBackend_toxicity(self, text) ==
    LET text_lower == Lower(text)
        toxic_count == ToxicCount(self.toxic_keywords, text_lower)
        toxicity_raw == toxic_count
    IN  [toxic_count |-> toxic_count,
         toxicity_score |-> Sigmoid(toxicity_raw)]

\* the first half of analyze(text) of either backend
Backend_sentiment(self, text) ==
    IF self.kind = "tfidf"
    THEN TfidfBackend_sentiment(self, text)
    ELSE TransformerBackend_sentiment(self, text)

\* the second half of analyze(text) of either backend
Backend_toxicity(self, text) ==
    IF self.kind = "tfidf"
    THEN TfidfBackend_toxicity(self, text)
    ELSE TransformerBackend_toxicity(self, text)

\* the dictionary analyze returns
AnalysisResult(sent, tox) ==
    [sentiment |-> [label |-> sent.label, score |-> sent.score],
     toxicity |-> tox.toxicity_score]

\* analyze(text) of either backend, run alone
Backend_analyze(self, text) ==
    AnalysisResult(Backend_sentiment(self, text), Backend_toxicity(self, text))

\* backend_name with the TF-IDF tag misspelt
backend_name_misspelt(self) ==
    IF self.kind = "tfidf" THEN "tf-idf" ELSE "transformer"

backend_name(self) ==
    IF self.kind = "tfidf" THEN "tfidf" ELSE "transformer"

\* the global inference_service before lifespan has assigned it
None == [kind |-> "none"]
\* the outcome of a constructor that raised
Raised == [kind |-> "raised"]

VectorizerPath == "models/vectorizer.joblib"
ClassifierPath == "models/linear_svc.joblib"
SentimentModelName == "distilbert-base-uncased-finetuned-sst-2-english"
ToxicityModelName == "unitary/toxic-bert"
Artifacts == { VectorizerPath, ClassifierPath, SentimentModelName, ToxicityModelName }

\* TfidfBackend() that loads the classifier on first use instead
TfidfBackend_init_lazy(dsk, vec, clf) ==
    IF VectorizerPath \notin dsk THEN Raised
    ELSE [kind |-> "tfidf", vectorizer |-> vec, classifier |-> clf,
          toxic_keywords |-> toxic_keywords_literal]

\* TfidfBackend(): joblib.load raises when a file is missing or unloadable.
\* The warm-up call analyze("test") returns a result that is dropped.
TfidfBackend_init(dsk, vec, clf) ==
    IF VectorizerPath \notin dsk THEN Raised
    ELSE IF ClassifierPath \notin dsk THEN Raised
    ELSE [kind |-> "tfidf", vectorizer |-> vec, classifier |-> clf,
          toxic_keywords |-> toxic_keywords_literal]

\* TransformerBackend(): pipeline(...) raises when its model cannot be
\* loaded.  The warm-up calls return results that are dropped.
TransformerBackend_init(dsk, sm, tm) ==
    IF SentimentModelName \notin dsk THEN Raised
    ELSE IF ToxicityModelName \notin dsk THEN Raised
    ELSE [kind |-> "transformer", sentiment_pipeline |-> sm, toxicity_pipeline |-> tm]

Unset == [set |-> FALSE, value |-> << >>]
EnvValue(v) == [set |-> TRUE, value |-> v]
TfidfName == << "t","f","i","d","f" >>
TransformerName == << "t","r","a","n","s","f","o","r","m","e","r" >>

\* values MODEL_BACKEND may have when the process starts
EnvValues ==
    { Unset,
      EnvValue(TfidfName),
      EnvValue(<< "T","f","I","d","f" >>),
      EnvValue(TransformerName),
      EnvValue(<< >>),
      EnvValue(<< "t","f","-","i","d","f" >>) }

\* os.getenv(name, default)
getenv(env, default) == IF env.set THEN env.value ELSE default

\* from_env comparing the value as given, without lower()
from_env_cased(env, dsk, vec, clf, sm, tm) ==
    IF getenv(env, TransformerName) = TfidfName
    THEN TfidfBackend_init(dsk, vec, clf)
    ELSE TransformerBackend_init(dsk, sm, tm)

\* InferenceService.from_env
from_env(env, dsk, vec, clf, sm, tm) ==
    LET backend == Lower(getenv(env, TransformerName))
    IN  IF backend = TfidfName
        THEN TfidfBackend_init(dsk, vec, clf)
        ELSE TransformerBackend_init(dsk, sm, tm)

(***************************************************************************)
(* app.py: the HTTP layer.                                                 *)
(***************************************************************************)
\* max_body_size of the BodySizeLimitMiddleware the application installs
MaxBodySize == 1048576

ReqIds == { "r1", "r2" }

Nil == [kind |-> "nil"]

\* the requests a client may send: a POST with or without a text field and a
\* declared Content-Length at or over the limit, or a GET
Requests(texts) ==
    { [method |-> "POST", path |-> p, has_text |-> h, text |-> t, content_length |-> n] :
        p \in { "/analyze", "/analyze/text" }, h \in { TRUE }, t \in texts,
        n \in { MaxBodySize, MaxBodySize + 1 } }
    \cup
    { [method |-> "POST", path |-> p, has_text |-> FALSE, text |-> << >>, content_length |-> n] :
        p \in { "/analyze", "/analyze/text" }, n \in { MaxBodySize, MaxBodySize + 1 } }
    \cup
    { [method |-> "GET", path |-> p, has_text |-> FALSE, text |-> << >>, content_length |-> 0] :
        p \in { "/health", "/version", "/analyze" } }

\* the requests of the interleaved specification: those that pass the
\* middleware and name a registered path
ConcRequests(texts) ==
    { req \in Requests(texts) :
        req.content_length <= MaxBodySize /\ req.path # "/analyze/text" }

\* BodySizeLimitMiddleware.dispatch: TRUE when the request is answered 413
BodySizeLimitMiddleware_rejects(req) ==
    /\ req.method \in { "POST", "PUT", "PATCH" }
    /\ req.content_length # 0
    /\ req.content_length > MaxBodySize

\* the routes the application registers
Routes ==
    { [method |-> "GET", path |-> "/health", endpoint |-> "health"],
      [method |-> "GET", path |-> "/version", endpoint |-> "version"],
      [method |-> "POST", path |-> "/analyze", endpoint |-> "analyze"] }

\* the router: the endpoint of the matching route; 405 for a registered path
\* under another method, 404 for a path that is not registered
Route(req) ==
    IF \E rt \in Routes : rt.path = req.path /\ rt.method = req.method
    THEN (CHOOSE rt \in Routes : rt.path = req.path /\ rt.method = req.method).endpoint
    ELSE IF \E rt \in Routes : rt.path = req.path THEN "405"
    ELSE "404"

\* AnalyzeRequest without min_length
AnalyzeRequest_valid_any_length(req) == req.has_text

\* AnalyzeRequest: text is required and has min_length=1
AnalyzeRequest_valid(req) ==
    /\ req.has_text
    /\ Len(req.text) >= 1

\* SentimentResult and AnalyzeResponse: score and toxicity have ge=0.0, le=1.0
AnalyzeResponse_valid(result) ==
    /\ result.sentiment.score >= 0
    /\ result.sentiment.score <= Scale
    /\ result.toxicity >= 0
    /\ result.toxicity <= Scale

Done(req, arg, sent, tox, status, body) ==
    [pc |-> "done", req |-> req, analyze_arg |-> arg, sent |-> sent, tox |-> tox,
     resp |-> [status |-> status, body |-> body]]

Idle ==
    [pc |-> "idle", req |-> Nil, analyze_arg |-> Nil, sent |-> Nil, tox |-> Nil, resp |-> Nil]

\* a request up to the first statement of the endpoint: the middleware, the
\* router and the validation of the request body
Received(req) ==
    IF BodySizeLimitMiddleware_rejects(req)
    THEN Done(req, Nil, Nil, Nil, 413, [detail |-> "Request body too large"])
    ELSE LET endpoint == Route(req)
         IN  CASE endpoint = "404" -> Done(req, Nil, Nil, Nil, 404, [detail |-> "Not Found"])
               [] endpoint = "405" -> Done(req, Nil, Nil, Nil, 405, [detail |-> "Method Not Allowed"])
               [] endpoint = "health" -> Done(req, Nil, Nil, Nil, 200, [status |-> "ok"])
               [] endpoint = "version" -> Done(req, Nil, Nil, Nil, 200, [version |-> "1.0.0"])
               [] OTHER ->
                    IF ~AnalyzeRequest_valid(req)
                    THEN Done(req, Nil, Nil, Nil, 422, [detail |-> "validation error"])
                    ELSE [pc |-> "called", req |-> req, analyze_arg |-> Nil,
                          sent |-> Nil, tox |-> Nil, resp |-> Nil]

\* inference_service.analyze(request.text), up to the sentiment: the call
\* raises on None, which the framework answers with 500
AfterSentiment(service, slot) ==
    IF service.kind = "none"
    THEN Done(slot.req, Nil, Nil, Nil, 500, [detail |-> "Internal Server Error"])
    ELSE [slot EXCEPT !.pc = "sentiment_done",
                      !.analyze_arg = [text |-> slot.req.text],
                      !.sent = Backend_sentiment(service, slot.req.text)]

\* inference_service.analyze(request.text), the toxicity and the return
AfterToxicity(service, slot) ==
    [slot EXCEPT !.pc = "analyzed",
                 !.tox = Backend_toxicity(service, slot.req.text)]

\* the AnalyzeResponse the endpoint returns; a result the response model
\* rejects is answered with 500
Responded(service, slot) ==
    LET result == AnalysisResult(slot.sent, slot.tox)
    IN  IF AnalyzeResponse_valid(result)
        THEN Done(slot.req, slot.analyze_arg, slot.sent, slot.tox, 200,
                  [sentiment |-> result.sentiment,
                   toxicity |-> result.toxicity,
                   model_backend |-> backend_name(service)])
        ELSE Done(slot.req, slot.analyze_arg, slot.sent, slot.tox, 500,
                  [detail |-> "Internal Server Error"])

\* one request handled from start to end, as the event loop runs the
\* endpoint (a coroutine that never awaits)
Handle(service, req) ==
    LET s0 == Received(req)
    IN  IF s0.pc = "done" THEN s0
        ELSE LET s1 == AfterSentiment(service, s0)
             IN  IF s1.pc = "done" THEN s1
                 ELSE Responded(service, AfterToxicity(service, s1))

\* the model_backend of a slot's response, if it has one
BackendsOf(slot) ==
    IF slot.pc = "done" /\ slot.resp.status = 200 /\ Route(slot.req) = "analyze"
    THEN { slot.resp.body.model_backend }
    ELSE {}

(***************************************************************************)
(* The process.                                                            *)
(***************************************************************************)
VARIABLES
    environ,            \* MODEL_BACKEND in os.environ
    disk,               \* the artifacts that are present and loadable
    phase,              \* "starting", "serving" or "failed"
    inference_service,  \* app.py's global
    env_reads,          \* how often MODEL_BACKEND has been read
    reqs,               \* per connection: the request being handled
    seen_backends       \* the model_backend values of the responses sent

vars == << environ, disk, phase, inference_service, env_reads, reqs, seen_backends >>

Init ==
    /\ environ \in EnvValues
    /\ disk \in SUBSET Artifacts
    /\ phase = "starting"
    /\ inference_service = None
    /\ env_reads = 0
    /\ reqs = [r \in ReqIds |-> Idle]
    /\ seen_backends = {}

\* lifespan, up to its yield: the factory runs once; when a constructor
\* raises, the assignment to the global does not happen and startup fails
lifespan ==
    /\ phase = "starting"
    /\ \E vec \in Vectorizers, clf \in Classifiers,
          sm \in SentimentModels, tm \in ToxicityModels :
        LET made == from_env(environ, disk, vec, clf, sm, tm)
        IN  IF made.kind = "raised"
            THEN /\ phase' = "failed"
                 /\ inference_service' = inference_service
            ELSE /\ phase' = "serving"
                 /\ inference_service' = made
    /\ env_reads' = env_reads + 1
    /\ UNCHANGED << environ, disk, reqs, seen_backends >>

\* POST or GET, handled to its response in one piece.  A request may also
\* reach the application before lifespan has run or after it has failed
\* (a client that does not run the lifespan): the global is None then.
HandleRequest(r) ==
    /\ reqs[r].pc = "idle"
    /\ \E req \in Requests(Texts) :
        LET slot == Handle(inference_service, req)
        IN  /\ reqs' = [reqs EXCEPT ![r] = slot]
            /\ seen_backends' = seen_backends \cup BackendsOf(slot)
    /\ UNCHANGED << environ, disk, phase, inference_service, env_reads >>

\* the client has read the response; the connection takes the next request
Close(r) ==
    /\ reqs[r].pc = "done"
    /\ reqs' = [reqs EXCEPT ![r] = Idle]
    /\ UNCHANGED << environ, disk, phase, inference_service, env_reads, seen_backends >>

Next ==
    \/ lifespan
    \/ HandleRequest("r1")
    \/ Close("r1")

Spec == Init /\ [][Next]_vars

(***************************************************************************)
(* The same process with the endpoint's statements of two requests         *)
(* interleaved, as under a server that runs endpoints on several threads.  *)
(* Connections are accepted once startup has completed.                    *)
(***************************************************************************)
Receive(r) ==
    /\ phase = "serving"
    /\ reqs[r].pc = "idle"
    /\ \E req \in ConcRequests(ConcTexts) :
        LET slot == Received(req)
        IN  /\ reqs' = [reqs EXCEPT ![r] = slot]
            /\ seen_backends' = seen_backends \cup BackendsOf(slot)
    /\ UNCHANGED << environ, disk, phase, inference_service, env_reads >>

StepSentiment(r) ==
    /\ reqs[r].pc = "called"
    /\ reqs' = [reqs EXCEPT ![r] = AfterSentiment(inference_service, reqs[r])]
    /\ UNCHANGED << environ, disk, phase, inference_service, env_reads, seen_backends >>

\* StepToxicity for a backend that drops the keywords it has matched
StepToxicityConsuming(r) ==
    /\ reqs[r].pc = "sentiment_done"
    /\ reqs' = [reqs EXCEPT ![r] = AfterToxicity(inference_service, reqs[r])]
    /\ inference_service' =
          IF inference_service.kind = "tfidf"
          THEN [inference_service EXCEPT !.toxic_keywords =
                   { w \in @ : ~Contains(Lower(reqs[r].req.text), w) }]
          ELSE inference_service
    /\ UNCHANGED << environ, disk, phase, env_reads, seen_backends >>

StepToxicity(r) ==
    /\ reqs[r].pc = "sentiment_done"
    /\ reqs' = [reqs EXCEPT ![r] = AfterToxicity(inference_service, reqs[r])]
    /\ UNCHANGED << environ, disk, phase, inference_service, env_reads, seen_backends >>

Respond(r) ==
    /\ reqs[r].pc = "analyzed"
    /\ LET slot == Responded(inference_service, reqs[r])
       IN  /\ reqs' = [reqs EXCEPT ![r] = slot]
           /\ seen_backends' = seen_backends \cup BackendsOf(slot)
    /\ UNCHANGED << environ, disk, phase, inference_service, env_reads >>

InitConc ==
    /\ Init
    /\ environ \in { Unset, EnvValue(TfidfName) }
    /\ disk = Artifacts

NextConc ==
    \/ lifespan
    \/ \E r \in ReqIds : Receive(r)
    \/ \E r \in ReqIds : StepSentiment(r)
    \/ \E r \in ReqIds : StepToxicity(r)
    \/ \E r \in ReqIds : Respond(r)
    \/ \E r \in ReqIds : Close(r)

SpecConc == InitConc /\ [][NextConc]_vars

(***************************************************************************)
(* Properties.                                                             *)
(***************************************************************************)
\* a slot holding a request that inference_service.analyze was called for
Analyzed(slot) ==
    /\ slot.pc = "done"
    /\ slot.analyze_arg # Nil

\* a slot holding a request answered with an analysis result
Answered(slot) ==
    /\ slot.pc = "done"
    /\ slot.resp.status = 200
    /\ Route(slot.req) = "analyze"

\* x and y are the same letter in either case, or the same character
SameLetter(x, y) ==
    \/ x = y
    \/ \E i \in 1..Len(UpperChars) : { x, y } = { UpperChars[i], LowerChars[i] }

\* a and b are equal when compared case-insensitively
CaseInsensitiveEq(a, b) ==
    /\ Len(a) = Len(b)
    /\ \A i \in 1..Len(a) : SameLetter(a[i], b[i])

\* the configuration asks for the TF-IDF backend
AsksForTfidf == environ.set /\ CaseInsensitiveEq(environ.value, TfidfName)

\* the artifacts the backend the configuration selects has to load
RequiredArtifacts ==
    IF AsksForTfidf
    THEN { VectorizerPath, ClassifierPath }
    ELSE { SentimentModelName, ToxicityModelName }

\* C1: whenever analyze has been called with a text, by either backend, the
\* sentiment score and the toxicity of its result lie in [0,1].
C1_ScoresInUnitInterval ==
    \A r \in ReqIds :
        Analyzed(reqs[r]) =>
            LET result == AnalysisResult(reqs[r].sent, reqs[r].tox)
            IN  /\ result.sentiment.score \in 0..Scale
                /\ result.toxicity \in 0..Scale

\* the TF-IDF backend has analysed a text with a keyword in it, on a decision
\* score so low that np.exp overflows
C1_Witness ==
    /\ Analyzed(reqs["r1"])
    /\ inference_service.kind = "tfidf"
    /\ reqs["r1"].tox.toxic_count >= 1
    /\ reqs["r1"].sent.decision_scores < -ExpRange
    /\ reqs["r1"].sent.score = Scale

\* C2: every response that carries a model_backend carries the same one, it
\* is "transformer" or "tfidf", and it is the name of the installed backend.
C2_BackendIdentityConstant ==
    /\ Cardinality(seen_backends) <= 1
    /\ seen_backends \subseteq { "transformer", "tfidf" }
    /\ seen_backends # {} =>
          /\ phase = "serving"
          /\ seen_backends = { backend_name(inference_service) }
    /\ \A r \in ReqIds : Answered(reqs[r]) =>
          reqs[r].resp.body.model_backend \in seen_backends

\* a second request is answered by a process that has answered one before
C2_Witness ==
    /\ seen_backends = { "tfidf" }
    /\ reqs["r1"].pc = "idle"
    /\ ENABLED HandleRequest("r1")

\* C3: the factory reads MODEL_BACKEND once; the backend it returns is one of
\* the two, the TF-IDF backend when the value equals "tfidf" compared
\* case-insensitively, the transformer backend when the value is unset.
C3_FactorySelectsOne ==
    /\ env_reads <= 1
    /\ phase # "starting" => env_reads = 1
    /\ phase = "serving" =>
          /\ inference_service.kind \in { "tfidf", "transformer" }
          /\ AsksForTfidf => inference_service.kind = "tfidf"
          /\ ~environ.set => inference_service.kind = "transformer"

\* the value "TfIdf" has selected the TF-IDF backend
C3_Witness ==
    /\ phase = "serving"
    /\ environ.set
    /\ environ.value # TfidfName
    /\ inference_service.kind = "tfidf"

\* C4: when an artifact the selected backend requires is missing or cannot
\* be loaded, startup fails, no backend is installed as the service, and no
\* /analyze request is ever answered with an analysis result.
C4_StartupFailsFast ==
    (phase # "starting" /\ ~(RequiredArtifacts \subseteq disk)) =>
        /\ phase = "failed"
        /\ inference_service = None
        /\ seen_backends = {}
        /\ \A r \in ReqIds : ~Answered(reqs[r])

\* after a failed startup a valid /analyze request has been answered 500
C4_Witness ==
    /\ phase = "failed"
    /\ VectorizerPath \in disk
    /\ ClassifierPath \notin disk
    /\ reqs["r1"].pc = "done"
    /\ Route(reqs["r1"].req) = "analyze"
    /\ AnalyzeRequest_valid(reqs["r1"].req)
    /\ reqs["r1"].resp.status = 500

\* a POST to /analyze whose text is the empty string or is missing
EmptyOrMissingText(req) ==
    /\ req.method = "POST"
    /\ req.path = "/analyze"
    /\ (~req.has_text \/ req.text = << >>)

\* C5, as stated, of a process that has started up: a POST to /analyze with
\* an empty or missing text is answered 422 and analyze is not called for
\* it; analyze is only ever called with a non-empty text.
C5_EmptyTextAnswered422 ==
    \A r \in ReqIds :
        /\ (phase = "serving" /\ reqs[r].pc = "done" /\ EmptyOrMissingText(reqs[r].req)) =>
              /\ reqs[r].resp.status = 422
              /\ reqs[r].analyze_arg = Nil
        /\ reqs[r].analyze_arg # Nil => Len(reqs[r].analyze_arg.text) >= 1

\* C5, amended: such a POST is rejected, with 413 when its Content-Length
\* is over the body-size limit and with 422 otherwise, and analyze is not
\* called for it; analyze is only ever called with a non-empty text.
C5_EmptyTextRejected ==
    \A r \in ReqIds :
        /\ (reqs[r].pc = "done" /\ EmptyOrMissingText(reqs[r].req)) =>
              /\ reqs[r].resp.status =
                    IF reqs[r].req.content_length > MaxBodySize THEN 413 ELSE 422
              /\ reqs[r].analyze_arg = Nil
        /\ reqs[r].analyze_arg # Nil => Len(reqs[r].analyze_arg.text) >= 1

\* a serving process has answered a POST to /analyze with text "" with 422
C5_Witness ==
    /\ phase = "serving"
    /\ reqs["r1"].pc = "done"
    /\ EmptyOrMissingText(reqs["r1"].req)
    /\ reqs["r1"].req.has_text
    /\ reqs["r1"].resp.status = 422

\* C6: a POST to /analyze/text whose text is empty or only white space is
\* answered 422 and no analysis is performed for it (stated of a process
\* that has started up and of a request within the body-size limit).
C6_WhitespaceTextAnswered422 ==
    \A r \in ReqIds :
        ( /\ phase = "serving"
          /\ reqs[r].pc = "done"
          /\ reqs[r].req.method = "POST"
          /\ reqs[r].req.path = "/analyze/text"
          /\ reqs[r].req.has_text
          /\ reqs[r].req.content_length <= MaxBodySize
          /\ \A i \in 1..Len(reqs[r].req.text) : reqs[r].req.text[i] \in WhitespaceChars ) =>
            /\ reqs[r].resp.status = 422
            /\ reqs[r].analyze_arg = Nil

\* C7: the transformer backend's sentiment is the sentiment pipeline's top
\* label and score; its toxicity is the toxicity pipeline's score when the
\* top label is "toxic" and 1 minus that score for every other label.
C7_TransformerRemapping ==
    \A r \in ReqIds :
        (Answered(reqs[r]) /\ inference_service.kind = "transformer") =>
            LET sp == pipeline_call(inference_service.sentiment_pipeline, reqs[r].req.text)
                tp == pipeline_call(inference_service.toxicity_pipeline, reqs[r].req.text)
            IN  /\ reqs[r].resp.body.sentiment = [label |-> sp.label, score |-> sp.score]
                /\ tp.label = "toxic" => reqs[r].resp.body.toxicity = tp.score
                /\ tp.label # "toxic" => reqs[r].resp.body.toxicity = Scale - tp.score

\* the toxicity pipeline's top label was not "toxic", with a score strictly
\* between 0 and 1
C7_Witness ==
    /\ Answered(reqs["r1"])
    /\ inference_service.kind = "transformer"
    /\ reqs["r1"].tox.toxicity_result.label # "toxic"
    /\ reqs["r1"].tox.toxicity_result.score > 0
    /\ reqs["r1"].tox.toxicity_result.score < Scale

\* C8: the TF-IDF backend's label is POSITIVE exactly when the predicted
\* class is "positive", with score sigmoid(decision); for every other class
\* it is NEGATIVE with score 1 - sigmoid(decision).
C8_TfidfSentiment ==
    \A r \in ReqIds :
        (Answered(reqs[r]) /\ inference_service.kind = "tfidf") =>
            LET X == vectorizer_transform(inference_service.vectorizer, reqs[r].req.text)
                prediction == classifier_predict(inference_service.classifier, X)
                decision == classifier_decision_function(inference_service.classifier, X)
                sentiment == reqs[r].resp.body.sentiment
            IN  /\ sentiment.label \in { "POSITIVE", "NEGATIVE" }
                /\ sentiment.label = "POSITIVE" <=> prediction = "positive"
                /\ prediction = "positive" => sentiment.score = Sigmoid(decision)
                /\ prediction # "positive" => sentiment.score = Scale - Sigmoid(decision)

\* a predicted class other than "positive" and "negative", on a decision
\* score whose sigmoid is not one half
C8_Witness ==
    /\ Answered(reqs["r1"])
    /\ inference_service.kind = "tfidf"
    /\ reqs["r1"].sent.prediction = "neutral"
    /\ reqs["r1"].resp.body.sentiment.label = "NEGATIVE"
    /\ 2 * reqs["r1"].resp.body.sentiment.score # Scale

\* the keywords of the fixed set that occur in the lower-cased text
KeywordsIn(text) ==
    { w \in toxic_keywords_literal : Contains(Lower(text), w) }

\* C9: the TF-IDF toxicity is logistic(toxic_count / 3.0) whatever the
\* classifier is: exactly 0.5 for a text with no keyword of the 16, and at
\* least logistic(1.0) for a text with three or more.
C9_TfidfToxicity ==
    /\ Cardinality(toxic_keywords_literal) = 16
    /\ \A r \in ReqIds :
        (Answered(reqs[r]) /\ inference_service.kind = "tfidf") =>
            LET text == reqs[r].req.text
                n == Cardinality(KeywordsIn(text))
                toxicity == reqs[r].resp.body.toxicity
            IN  /\ toxicity = Sigmoid(n)
                /\ n = 0 => 2 * toxicity = Scale
                /\ n >= 3 => toxicity >= Sigmoid(3)
                /\ \A clf \in Classifiers :
                      Backend_analyze([inference_service EXCEPT !.classifier = clf],
                                      text).toxicity = toxicity

\* a text with three keywords, one of them in mixed case
C9_Witness ==
    /\ Answered(reqs["r1"])
    /\ inference_service.kind = "tfidf"
    /\ Cardinality(KeywordsIn(reqs["r1"].req.text)) = 3
    /\ reqs["r1"].req.text # Lower(reqs["r1"].req.text)

\* C10: no step changes the installed backend, and every answered request
\* carries the result of analyze run alone on its own text, whatever the
\* other connection is doing.
C10_StatelessPerCall ==
    [][ /\ inference_service.kind # "none" => inference_service' = inference_service
        /\ \A r \in ReqIds :
              Answered(reqs'[r]) =>
                 LET alone == Backend_analyze(inference_service', reqs'[r].req.text)
                 IN  /\ reqs'[r].resp.body.sentiment = alone.sentiment
                     /\ reqs'[r].resp.body.toxicity = alone.toxicity
                     /\ reqs'[r].resp = Handle(inference_service', reqs'[r].req).resp ]_vars

\* one request has been answered while another, with another text, is
\* between the two halves of analyze
C10_Witness ==
    /\ inference_service.kind = "tfidf"
    /\ Answered(reqs["r1"])
    /\ reqs["r2"].pc = "sentiment_done"
    /\ reqs["r2"].req.text # reqs["r1"].req.text
    /\ reqs["r1"].tox.toxic_count # Backend_toxicity(inference_service, reqs["r2"].req.text).toxic_count

\* the places of a text where a keyword of the fixed set starts, in either case
KeywordOccurrences(text) ==
    { o \in toxic_keywords_literal \X (1..Len(text)) :
        /\ o[2] + Len(o[1]) - 1 <= Len(text)
        /\ CaseInsensitiveEq(SubSeq(text, o[2], o[2] + Len(o[1]) - 1), o[1]) }

\* C11: in the TF-IDF backend toxic_count is the number of distinct keywords
\* of the 16 that occur in the text in either case, also inside longer
\* words, not the number of occurrences: it lies in 0..16, appending a
\* keyword already present leaves the toxicity as it is, appending or
\* prepending any text never lowers it, and the toxicity lies between
\* logistic(0) and logistic(16/3), never below 0.5.
C11_DistinctKeywordCount ==
    \A r \in ReqIds :
        (Answered(reqs[r]) /\ inference_service.kind = "tfidf") =>
            LET text == reqs[r].req.text
                toxicity == reqs[r].resp.body.toxicity
                occurring == { o[1] : o \in KeywordOccurrences(text) }
            IN  /\ reqs[r].tox.toxic_count = Cardinality(occurring)
                /\ reqs[r].tox.toxic_count \in 0..16
                /\ toxicity = Sigmoid(Cardinality(occurring))
                /\ toxicity >= Sigmoid(0)
                /\ toxicity <= Sigmoid(16)
                /\ 2 * toxicity >= Scale
                /\ \A w \in occurring :
                      Backend_toxicity(inference_service, text \o w).toxicity_score = toxicity
                /\ \A p \in Pieces :
                      /\ Backend_toxicity(inference_service, text \o p).toxicity_score >= toxicity
                      /\ Backend_toxicity(inference_service, p \o text).toxicity_score >= toxicity

\* a text in which one keyword occurs twice, inside a longer word, and is
\* counted once
C11_Witness ==
    /\ Answered(reqs["r1"])
    /\ inference_service.kind = "tfidf"
    /\ Cardinality(KeywordOccurrences(reqs["r1"].req.text)) = 2
    /\ reqs["r1"].tox.toxic_count = 1
    /\ Tokens(Lower(reqs["r1"].req.text)) \cap toxic_keywords_literal = {}

=============================================================================
